---- MODULE Spec2Model ----
(***************************************************************************)
(* Spiral density-wave power estimation (diskpy/disk/_spirals.py).         *)
(*                                                                         *)
(* spiralpower_t, spiralpower and sigmacylindrical are modelled over exact *)
(* rational arithmetic extended with the IEEE special values nan and +-inf *)
(* (a division by zero in numpy yields them, it does not raise).           *)
(*                                                                         *)
(* Numbers.  A number is a pair <<n, d>>: d > 0 is the rational n/d in     *)
(* lowest terms, <<0,0>> is nan, <<1,0>> is +inf and <<-1,0>> is -inf.     *)
(* Angles are measured in quarter turns, so 2*pi is TwoPi = 4; this scales *)
(* every cell area by one common factor.  Logarithms are taken to base 2   *)
(* (np.linspace is affine, so exp(linspace(log a, log b)) does not depend  *)
(* on the base); radii are drawn from powers of four and radial bin counts *)
(* from 1..2, which keeps every log-spaced edge an exact power of two.     *)
(***************************************************************************)
EXTENDS Integers, Sequences, FiniteSets, TLC

\* ---------------------------------------------------------------- bounds
\* Longest snapshot list handed to spiralpower_t.
MaxK == 2
\* Largest angular bin count.
MaxThetaBins == 2

\* 2*np.pi in quarter turns.
TwoPi == 4

\* ------------------------------------------------------------ arithmetic
Abs(n) == IF n < 0 THEN -n ELSE n

Sign(n) == IF n < 0 THEN -1 ELSE IF n > 0 THEN 1 ELSE 0

RECURSIVE GCD(_, _)
GCD(a, b) == IF b = 0 THEN a ELSE GCD(b, a % b)

\* n/d as a number: lowest terms, positive denominator; x/0 is +-inf, 0/0 nan.
Norm(n, d) ==
    IF d = 0 THEN <<Sign(n), 0>>
    ELSE LET g == GCD(Abs(n), Abs(d))
             s == Sign(d)
         IN  <<(s * n) \div g, (s * d) \div g>>

R(n) == <<n, 1>>

NaN == <<0, 0>>

PosInf == <<1, 0>>

NegInf == <<-1, 0>>

IsFinite(x) == x[2] # 0

IsNaN(x) == x = NaN

RAdd(x, y) ==
    IF IsNaN(x) \/ IsNaN(y) THEN NaN
    ELSE IF ~IsFinite(x) /\ ~IsFinite(y) THEN (IF x = y THEN x ELSE NaN)
    ELSE IF ~IsFinite(x) THEN x
    ELSE IF ~IsFinite(y) THEN y
    ELSE LET g == GCD(x[2], y[2])
         IN  Norm(x[1] * (y[2] \div g) + y[1] * (x[2] \div g), x[2] * (y[2] \div g))

RNeg(x) == <<-x[1], x[2]>>

RSub(x, y) == RAdd(x, RNeg(y))

RMul(x, y) ==
    IF IsFinite(x) /\ IsFinite(y)
    THEN LET a == Norm(x[1], y[2])
             b == Norm(y[1], x[2])
         IN  Norm(a[1] * b[1], a[2] * b[2])
    ELSE <<Sign(x[1] * y[1]), 0>>

RDiv(x, y) ==
    IF IsNaN(x) \/ IsNaN(y) THEN NaN
    ELSE IF ~IsFinite(y) THEN (IF IsFinite(x) THEN R(0) ELSE NaN)
    ELSE IF y[1] = 0 THEN <<Sign(x[1]), 0>>
    ELSE RMul(x, Norm(y[2], y[1]))

\* Comparisons are false whenever an operand is nan.
RLess(x, y) == ~IsNaN(x) /\ ~IsNaN(y) /\ x # y /\ x[1] * y[2] < y[1] * x[2]

REq(x, y) == ~IsNaN(x) /\ ~IsNaN(y) /\ x = y

RLeq(x, y) == RLess(x, y) \/ REq(x, y)

RECURSIVE Pow2(_)
Pow2(e) == IF e = 0 THEN 1 ELSE 2 * Pow2(e - 1)

\* Largest exponent of a radius: radii are at most 2^MaxExp.
MaxExp == 6

\* np.log: -inf at 0 and nan below 0 (a warning, no exception).
log(x) ==
    IF IsNaN(x) THEN NaN
    ELSE IF ~IsFinite(x) THEN (IF x = PosInf THEN PosInf ELSE NaN)
    ELSE IF x[1] < 0 THEN NaN
    ELSE IF x[1] = 0 THEN NegInf
    ELSE R(CHOOSE e \in -MaxExp..MaxExp :
             IF e >= 0 THEN x = R(Pow2(e)) ELSE x = <<1, Pow2(-e)>>)

\* np.exp
exp(x) ==
    IF IsNaN(x) THEN NaN
    ELSE IF x = PosInf THEN PosInf
    ELSE IF x = NegInf THEN R(0)
    ELSE LET e == CHOOSE k \in -MaxExp..MaxExp : x = R(k)
         IN  IF e >= 0 THEN R(Pow2(e)) ELSE <<1, Pow2(-e)>>

\* np.linspace(start, stop, num): num points, the last one set to stop.
linspace(start, stop, num) ==
    LET step == RDiv(RSub(stop, start), R(num - 1))
    IN  [k \in 1..num |->
            IF num = 1 THEN start
            ELSE IF k = num THEN stop
            ELSE RAdd(start, RMul(R(k - 1), step))]

RECURSIVE RSum(_)
RSum(s) == IF s = <<>> THEN R(0) ELSE RAdd(s[1], RSum(Tail(s)))

RECURSIVE SeqMin(_)
SeqMin(s) ==
    IF Len(s) = 1 THEN s[1]
    ELSE LET t == SeqMin(Tail(s)) IN IF RLess(t, s[1]) THEN t ELSE s[1]

RECURSIVE SeqMax(_)
SeqMax(s) ==
    IF Len(s) = 1 THEN s[1]
    ELSE LET t == SeqMax(Tail(s)) IN IF RLess(s[1], t) THEN t ELSE s[1]

\* np.std(row): the square root of the mean squared deviation, kept as the
\* tagged radicand.
std(row) ==
    LET n    == R(Len(row))
        mean == RDiv(RSum(row), n)
        dev  == [j \in DOMAIN row |-> RMul(RSub(row[j], mean), RSub(row[j], mean))]
    IN  <<"sqrt", RDiv(RSum(dev), n)>>

\* A bin argument (rbins, thetabins) is a count or a sequence of edges.
Count(n) == [isint |-> TRUE, n |-> n, e |-> <<>>]

Edges(e) == [isint |-> FALSE, n |-> 0, e |-> e]

\* isinstance(bins, int)
IsCount(bins) == bins.isint

\* -------------------------------------------------------------- snapshots
\* A gas particle: cylindrical radius rxy, arctan2(y, x) in quarter turns
\* (-2..2) and mass.
P(r, a, m) == [r |-> r, a |-> a, m |-> m]

\* A snapshot: gas particles g, the particles as centerdisk would leave
\* them (gc), and the unit tag its derived arrays carry ("" for none).
Snap(g, gc, u) == [g |-> g, gc |-> gc, units |-> u]

SnapA == Snap(<<P(1, 0, 1), P(16, 1, 2)>>, <<P(4, -1, 1), P(16, 1, 2)>>, "Msol au**-2")

SnapB == Snap(<<P(0, 0, 1), P(4, 2, 1)>>, <<P(1, 2, 1), P(4, 0, 1)>>, "g cm**-2")

SnapC == Snap(<<P(4, 1, 3)>>, <<P(1, 0, 3)>>, "")

SnapD == Snap(<<P(1, -1, 2), P(4, 2, 1), P(4, 0, 1)>>, <<P(1, 1, 2), P(4, 2, 2)>>, "Msol au**-2")

\* f.g['rxy'], f.g['mass']
rxy(f) == [k \in DOMAIN f.g |-> R(f.g[k].r)]

mass(f) == [k \in DOMAIN f.g |-> f.g[k].m]

\* np.arctan2(f.g['y'], f.g['x'])
arctan2(f) == [k \in DOMAIN f.g |-> f.g[k].a]

\* centerdisk(f): shifts the snapshot to its centre of mass, in place.
centerdisk(f) == [f EXCEPT !.g = f.gc]

\* ---------------------------------------------------------------- binning
\* Value v lies in cell i of the edges: half-open cells, the last one closed.
InBin(v, edges, i) ==
    /\ RLeq(edges[i], v)
    /\ \/ RLess(v, edges[i + 1])
       \/ i = Len(edges) - 1 /\ REq(v, edges[i + 1])

\* Edges of a bin argument for data x: a count gives equal-width cells over
\* the data extent.
BinEdges(x, bins) ==
    IF IsCount(bins) THEN linspace(SeqMin(x), SeqMax(x), bins.n + 1) ELSE bins.e

RECURSIVE SumWhere(_, _, _, _, _, _, _)
SumWhere(x, y, z, xe, ye, i, j) ==
    IF x = <<>> THEN 0
    ELSE (IF InBin(x[1], xe, i) /\ InBin(y[1], ye, j) THEN z[1] ELSE 0)
         + SumWhere(Tail(x), Tail(y), Tail(z), xe, ye, i, j)

\* bin2dsum(x, y, z, xbins, ybins): the weights z summed per 2-D cell.
bin2dsum(x, y, z, xbins, ybins) ==
    LET xe == BinEdges(x, xbins)
        ye == BinEdges(y, ybins)
    IN  [msum |-> [i \in 1..(Len(xe) - 1) |->
                      [j \in 1..(Len(ye) - 1) |-> SumWhere(x, y, z, xe, ye, i, j)]],
         xedges |-> xe,
         yedges |-> ye]

\* dA(redges, thetaedges): the area of each polar cell.
dA(redges, thetaedges) ==
    [i \in 1..(Len(redges) - 1) |->
        [j \in 1..(Len(thetaedges) - 1) |->
            RMul(<<1, 2>>,
                 RMul(RSub(RMul(redges[i + 1], redges[i + 1]), RMul(redges[i], redges[i])),
                      RSub(thetaedges[j + 1], thetaedges[j])))]]

\* theta = arctan2(y, x) with the modulo skipped (negative angles survive).
ThetaNoMod(f) == [k \in DOMAIN f.g |-> R(arctan2(f)[k])]

\* theta = np.arctan2(y, x) % (2*np.pi)
Theta(f) == [k \in DOMAIN f.g |-> R(arctan2(f)[k] % TwoPi)]

\* thetabins as handed to bin2dsum: a count becomes thetabins + 1 edges
\* over [0, 2 pi].
ThetaEdges(thetabins) ==
    IF IsCount(thetabins) THEN Edges(linspace(R(0), R(TwoPi), thetabins.n + 1))
    ELSE thetabins

\* sigma = msum / dA(redges, thetaedges)
Sigma(msum, area) ==
    [i \in DOMAIN msum |-> [j \in DOMAIN msum[i] |-> RDiv(R(msum[i][j]), area[i][j])]]

\* sigmacylindrical(f, rbins, thetabins); the meshes are the edges.
sigmacylindrical(f, rbins, thetabins) ==
    LET b == bin2dsum(rxy(f), Theta(f), mass(f), rbins, ThetaEdges(thetabins))
    IN  [redges |-> b.xedges,
         thetaedges |-> b.yedges,
         sigma |-> Sigma(b.msum, dA(b.xedges, b.yedges))]

\* spiralpower(f, rbins, thetabins): the angular standard deviation of the
\* density per radial cell, tagged with the snapshot's units, and the edges.
spiralpower(f, rbins, thetabins) ==
    LET s == sigmacylindrical(f, rbins, thetabins)
    IN  [power |-> [vals |-> [i \in DOMAIN s.sigma |-> std(s.sigma[i])],
                    units |-> f.units],
         r |-> s.redges]


\* ------------------------------------------------------------ spiralpower_t
\* An element of flist: a filename or a loaded snapshot (a reference into
\* the heap of snapshot objects).
Str(name) == [isstr |-> TRUE, name |-> name, ref |-> 0]

Ref(id) == [isstr |-> FALSE, name |-> "", ref |-> id]

\* The snapshots the caller holds in memory, and those on disk by filename.
InitHeap == <<SnapA, SnapB, SnapC>>

Disk == [a |-> SnapD]

\* rlim = None
None == <<>>

VARIABLES
    args,     \* the arguments: flist, rbins, thetabins, binspacing, rlim, center
    heap,     \* the snapshot objects; centerdisk mutates them in place
    pc,       \* the statement spiralpower_t is at
    do_load,  \* flist holds filenames
    rmin,     \* radial limits
    rmax,
    rbins,    \* rbins: the argument, then the radial edges
    nxt,      \* position of the for-loop's iterator
    i,        \* index of the current element
    f,        \* the current element / snapshot
    power,    \* the profiles collected so far
    ret,      \* <<>>, or <<the returned (power, rbins)>>
    err,      \* "" or the exception that ended the call
    calls,      \* every call to load, centerdisk and spiralpower, in order
    sig       \* result of a direct sigmacylindrical call

vars == <<args, heap, pc, do_load, rmin, rmax, rbins, nxt, i, f, power, ret, err, calls, sig>>

\* One entry of the call log: the callee, the index of the list element (-1
\* for the load that precedes the loop), whether it returned, and for a
\* spiralpower call the edges and the particles it was given.
Event(op, k, ok, rb, g) == [op |-> op, k |-> k, ok |-> ok, rb |-> rb, g |-> g]

\* for i, f in enumerate(flist): the element at iterator position n.
NextElementFirst(list, n) == list[1]

NextElement(list, n) == list[n + 1]

\* flist[0], the element the radial limits are read from.
LimitElementLast(list) == list[Len(list)]

LimitElement(list) == list[1]

\* f.g['rxy'].min(), f.g['rxy'].max()
RadialExtentCentered(s) == <<SeqMin(rxy(centerdisk(s))), SeqMax(rxy(centerdisk(s)))>>

RadialExtent(s) == <<SeqMin(rxy(s)), SeqMax(rxy(s))>>

\* if center:
ShouldCenterAlways(c) == TRUE

ShouldCenter(c) == c

\* elif binspacing == 'linear':
IsLinearOrOther(b) == b # "log"

IsLinear(b) == b = "linear"

\* An exception leaves spiralpower_t: nothing is returned.
RaiseAndGoOn(e) == err' = err /\ pc' = "loop"

Raise(e) == err' = e /\ pc' = "done"

\* pynbody.load(name) can resolve the name.
CanLoad(e) == e.isstr /\ e.name \in DOMAIN Disk

ArgSets ==
    [flist      : UNION {[1..n -> {Ref(1), Ref(2), Ref(3), Str("a"), Str("missing")}]
                            : n \in 1..MaxK},
     rbins      : {Count(1), Count(2), Edges(<<R(1), R(4), R(16)>>)},
     thetabins  : {Count(n) : n \in 1..MaxThetaBins},
     binspacing : {"log", "linear", "cubic"},
     rlim       : {None, <<R(1), R(16)>>, <<R(0), R(4)>>},
     center     : BOOLEAN]

Init ==
    /\ args \in ArgSets
    /\ heap = InitHeap
    /\ pc = "start"
    /\ do_load = FALSE
    /\ rmin = NaN
    /\ rmax = NaN
    /\ rbins = args.rbins
    /\ nxt = 0
    /\ i = 0
    /\ f = Ref(0)
    /\ power = <<>>
    /\ ret = <<>>
    /\ err = ""
    /\ calls = <<>>
    /\ sig = <<>>

\* Lines 49-52: flist is a list of filenames if its first element is one.
CheckList ==
    /\ pc = "start"
    /\ do_load' = args.flist[1].isstr
    /\ pc' = "limits"
    /\ UNCHANGED <<args, heap, rmin, rmax, rbins, nxt, i, f, power, ret, err, calls, sig>>

\* Lines 57-74: with rbins a count, the radial limits come from rlim or
\* from the first snapshot, which is loaded if flist holds filenames.
SetLimits ==
    /\ pc = "limits"
    /\ IF ~IsCount(rbins)
       THEN /\ pc' = "loop"
            /\ UNCHANGED <<heap, rmin, rmax, f, err, calls>>
       ELSE IF args.rlim # None
       THEN /\ rmin' = args.rlim[1]
            /\ rmax' = args.rlim[2]
            /\ pc' = "bins"
            /\ UNCHANGED <<heap, f, err, calls>>
       ELSE IF do_load
       THEN IF CanLoad(LimitElement(args.flist))
            THEN /\ heap' = Append(heap, Disk[LimitElement(args.flist).name])
                 /\ f' = Ref(Len(heap) + 1)
                 /\ rmin' = RadialExtent(heap'[f'.ref])[1]
                 /\ rmax' = RadialExtent(heap'[f'.ref])[2]
                 /\ calls' = Append(calls, Event("load", -1, TRUE, Count(0), <<>>))
                 /\ pc' = "bins"
                 /\ UNCHANGED err
            ELSE /\ calls' = Append(calls, Event("load", -1, FALSE, Count(0), <<>>))
                 /\ Raise("IOError")
                 /\ UNCHANGED <<heap, rmin, rmax, f>>
       ELSE /\ f' = LimitElement(args.flist)
            /\ IF ~f'.isstr
               THEN /\ rmin' = RadialExtent(heap[f'.ref])[1]
                    /\ rmax' = RadialExtent(heap[f'.ref])[2]
                    /\ pc' = "bins"
                    /\ UNCHANGED err
               ELSE /\ Raise("AttributeError")
                    /\ UNCHANGED <<rmin, rmax>>
            /\ UNCHANGED <<heap, calls>>
    /\ UNCHANGED <<args, do_load, rbins, nxt, i, power, ret, sig>>

\* Lines 77-87: the edges, log or linearly spaced; any other spacing raises.
SetBins ==
    /\ pc = "bins"
    /\ IF args.binspacing = "log"
       THEN /\ rbins' = Edges([k \in 1..(rbins.n + 1) |->
                                 exp(linspace(log(rmin), log(rmax), rbins.n + 1)[k])])
            /\ pc' = "loop"
            /\ UNCHANGED err
       ELSE IF IsLinear(args.binspacing)
       THEN /\ rbins' = Edges(linspace(rmin, rmax, rbins.n + 1))
            /\ pc' = "loop"
            /\ UNCHANGED err
       ELSE /\ Raise("ValueError")
            /\ UNCHANGED rbins
    /\ UNCHANGED <<args, heap, do_load, rmin, rmax, nxt, i, f, power, ret, calls, sig>>

\* Line 93: the next element of flist, or the end of the loop.
LoopNext ==
    /\ pc = "loop"
    /\ IF nxt < Len(args.flist)
       THEN /\ i' = nxt
            /\ f' = NextElement(args.flist, nxt)
            /\ nxt' = nxt + 1
            /\ pc' = "load"
       ELSE /\ pc' = "stack"
            /\ UNCHANGED <<i, f, nxt>>
    /\ UNCHANGED <<args, heap, do_load, rmin, rmax, rbins, power, ret, err, calls, sig>>

\* Lines 95-98: f = pynbody.load(f) if flist holds filenames.
LoadStep ==
    /\ pc = "load"
    /\ IF ~do_load
       THEN /\ pc' = "center"
            /\ UNCHANGED <<heap, f, err, calls>>
       ELSE IF CanLoad(f)
       THEN /\ heap' = Append(heap, Disk[f.name])
            /\ f' = Ref(Len(heap) + 1)
            /\ calls' = Append(calls, Event("load", i, TRUE, Count(0), <<>>))
            /\ pc' = "center"
            /\ UNCHANGED err
       ELSE /\ calls' = Append(calls, Event("load", i, FALSE, Count(0), <<>>))
            /\ Raise(IF f.isstr THEN "IOError" ELSE "TypeError")
            /\ UNCHANGED <<heap, f>>
    /\ UNCHANGED <<args, do_load, rmin, rmax, rbins, nxt, i, power, ret, sig>>

\* Lines 100-102: centerdisk(f), in place, if center is set.
CenterStep ==
    /\ pc = "center"
    /\ IF ~ShouldCenter(args.center)
       THEN /\ pc' = "power"
            /\ UNCHANGED <<heap, err, calls>>
       ELSE IF ~f.isstr
       THEN /\ heap' = [heap EXCEPT ![f.ref] = centerdisk(@)]
            /\ calls' = Append(calls, Event("center", i, TRUE, Count(0), <<>>))
            /\ pc' = "power"
            /\ UNCHANGED err
       ELSE /\ calls' = Append(calls, Event("center", i, FALSE, Count(0), <<>>))
            /\ Raise("AttributeError")
            /\ UNCHANGED heap
    /\ UNCHANGED <<args, do_load, rmin, rmax, rbins, nxt, i, f, power, ret, sig>>

\* Lines 103-104: p, r = spiralpower(f, rbins, thetabins); power.append(p)
PowerStep ==
    /\ pc = "power"
    /\ IF ~f.isstr
       THEN /\ power' = Append(power, spiralpower(heap[f.ref], rbins, args.thetabins).power)
            /\ calls' = Append(calls, Event("power", i, TRUE, rbins, heap[f.ref].g))
            /\ pc' = "loop"
            /\ UNCHANGED err
       ELSE /\ calls' = Append(calls, Event("power", i, FALSE, rbins, <<>>))
            /\ Raise("AttributeError")
            /\ UNCHANGED power
    /\ UNCHANGED <<args, heap, do_load, rmin, rmax, rbins, nxt, i, f, ret, sig>>

\* Lines 107-116: the profiles stacked into one array, which takes the
\* units of the first profile if that has units, and none otherwise.
Stack ==
    /\ pc = "stack"
    /\ ret' = <<[power |-> [vals  |-> [k \in DOMAIN power |-> power[k].vals],
                            units |-> IF power[1].units # "" THEN power[1].units ELSE ""],
                 rbins |-> rbins]>>
    /\ pc' = "done"
    /\ UNCHANGED <<args, heap, do_load, rmin, rmax, rbins, nxt, i, f, power, err, calls, sig>>

Next ==
    \/ CheckList
    \/ SetLimits
    \/ SetBins
    \/ LoopNext
    \/ LoadStep
    \/ CenterStep
    \/ PowerStep
    \/ Stack

Spec == Init /\ [][Next]_vars


\* ------------------------------------------- sigmacylindrical called directly
SigmaSnaps ==
    {SnapA, SnapB, SnapC, SnapD,
     centerdisk(SnapA), centerdisk(SnapB), centerdisk(SnapC), centerdisk(SnapD)}

SigmaRBins ==
    {Count(1), Count(2),
     Edges(<<R(0), R(1), R(4), R(16)>>),
     Edges(<<R(1), R(4), R(16)>>),
     Edges(<<R(2), R(8)>>),
     Edges(<<R(0), R(4), R(4), R(16)>>)}

SigmaThetaBins ==
    {Count(n) : n \in 1..MaxThetaBins}
        \cup {Edges(<<R(0), R(1), R(4)>>),
              Edges(<<R(0), R(2)>>),
              Edges(<<R(1), R(4)>>),
              Edges(<<R(0), R(0), R(4)>>)}

InitSigma ==
    /\ args \in [flist : {<<Ref(1)>>}, rbins : SigmaRBins, thetabins : SigmaThetaBins,
                 binspacing : {"linear"}, rlim : {None}, center : {FALSE}]
    /\ heap \in {<<s>> : s \in SigmaSnaps}
    /\ pc = "sigma"
    /\ do_load = FALSE
    /\ rmin = NaN
    /\ rmax = NaN
    /\ rbins = args.rbins
    /\ nxt = 0
    /\ i = 0
    /\ f = Ref(1)
    /\ power = <<>>
    /\ ret = <<>>
    /\ err = ""
    /\ calls = <<>>
    /\ sig = <<>>

\* rmesh, thetamesh, sigma = sigmacylindrical(f, rbins, thetabins)
SigmaCall ==
    /\ pc = "sigma"
    /\ sig' = <<sigmacylindrical(heap[f.ref], rbins, args.thetabins)>>
    /\ pc' = "sigma_done"
    /\ UNCHANGED <<args, heap, do_load, rmin, rmax, rbins, nxt, i, f, power, ret, err, calls>>

NextSigma == SigmaCall

SpecSigma == InitSigma /\ [][NextSigma]_vars

\* ------------------------------------------------------------------ claims
\* The snapshot a list element stands for when spiralpower_t is entered.
EntrySnap(e) ==
    IF ~e.isstr THEN InitHeap[e.ref]
    ELSE IF e.name \in DOMAIN Disk THEN Disk[e.name]
    ELSE Snap(<<>>, <<>>, "")

\* The snapshot of a list element in the coordinates it is binned in.
AsBinned(e) == IF args.center THEN centerdisk(EntrySnap(e)) ELSE EntrySnap(e)

\* The call ended before the loop was entered.
FailedBeforeLoop == pc = "done" /\ err # "" /\ nxt = 0

InLoopOrAfter == pc \in {"loop", "load", "center", "power", "stack", "done"} /\ ~FailedBeforeLoop

StrictlyIncreasing(e) == \A k \in 1..(Len(e) - 1) : RLess(e[k], e[k + 1])

Rank(op) == CASE op = "load" -> 1 [] op = "center" -> 2 [] op = "power" -> 3

\* C1: a call that returns gives one row per list element, and row k is the
\* power profile of element k (in the coordinates it is binned in).
C1_RowsMirrorInput ==
    (pc = "done" /\ err = "") =>
        /\ Len(ret) = 1
        /\ Len(ret[1].power.vals) = Len(args.flist)
        /\ \A k \in 1..Len(args.flist) :
              ret[1].power.vals[k]
                  = spiralpower(AsBinned(args.flist[k]), ret[1].rbins, args.thetabins).power.vals

C1_Witness ==
    /\ pc = "done" /\ err = ""
    /\ Len(args.flist) >= 2
    /\ ret[1].power.vals[1] # ret[1].power.vals[2]

\* The edges spiralpower_t derives from the first list element's extent.
EdgesFromFirst ==
    LET ext == <<SeqMin(rxy(EntrySnap(args.flist[1]))), SeqMax(rxy(EntrySnap(args.flist[1])))>>
        n   == args.rbins.n
    IN  IF args.binspacing = "log"
        THEN Edges([k \in 1..(n + 1) |-> exp(linspace(log(ext[1]), log(ext[2]), n + 1)[k])])
        ELSE Edges(linspace(ext[1], ext[2], n + 1))

\* C2: with rbins a count and no rlim, from the loop on rbins is the edge
\* sequence derived from the first list element and stays so; every
\* snapshot is binned against it and it is what the call returns.
C2_EdgesFixedFromFirst ==
    (IsCount(args.rbins) /\ args.rlim = None /\ InLoopOrAfter) =>
        /\ rbins = EdgesFromFirst
        /\ \A n \in DOMAIN calls : calls[n].op = "power" => calls[n].rb = rbins
        /\ ret # <<>> => ret[1].rbins = rbins
        /\ Cardinality({n \in DOMAIN calls : calls[n].k = -1}) <= 1

C2_Witness ==
    /\ IsCount(args.rbins) /\ args.rlim = None
    /\ pc = "done" /\ err = ""
    /\ Len(args.flist) >= 2
    /\ RadialExtent(AsBinned(args.flist[2])) # RadialExtent(EntrySnap(args.flist[1]))
    /\ Cardinality({n \in DOMAIN calls : calls[n].op = "power" /\ calls[n].rb = ret[1].rbins}) >= 2

\* The mass of the particles whose radius lies in radial cell r of the grid.
RECURSIVE MassWhere(_, _, _, _)
MassWhere(x, z, xe, r) ==
    IF x = <<>> THEN 0
    ELSE (IF InBin(x[1], xe, r) THEN z[1] ELSE 0) + MassWhere(Tail(x), Tail(z), xe, r)

MassInRadialCell(r) == MassWhere(rxy(heap[1]), mass(heap[1]), sig[1].redges, r)

\* Sum over the angular cells of density times area in radial cell r.
RowMass(r) ==
    LET area == dA(sig[1].redges, sig[1].thetaedges)
    IN  RSum([j \in DOMAIN sig[1].sigma[r] |-> RMul(sig[1].sigma[r][j], area[r][j])])

\* The angular edges run from 0 to 2 pi without decreasing.
ThetaCoversCircle ==
    LET te == sig[1].thetaedges
    IN  /\ te[1] = R(0)
        /\ te[Len(te)] = R(TwoPi)
        /\ \A j \in 1..(Len(te) - 1) : RLeq(te[j], te[j + 1])

NoZeroArea(r) ==
    LET area == dA(sig[1].redges, sig[1].thetaedges)
    IN  \A j \in DOMAIN area[r] : IsFinite(area[r][j]) /\ area[r][j] # R(0)

\* C3 as claimed: for every choice of bins, the density times area summed
\* over the angular cells of a radial cell is the mass in that radial cell.
C3_MassConservedAnyBins ==
    pc = "sigma_done" =>
        \A r \in DOMAIN sig[1].sigma : RowMass(r) = R(MassInRadialCell(r))

\* C3 (amended): the same, for radial cells without a zero-area cell and
\* angular edges that run from 0 to 2 pi.
C3_MassConserved ==
    pc = "sigma_done" =>
        \A r \in DOMAIN sig[1].sigma :
            (ThetaCoversCircle /\ NoZeroArea(r)) => RowMass(r) = R(MassInRadialCell(r))

C3_Witness ==
    /\ pc = "sigma_done"
    /\ ThetaCoversCircle
    /\ \E r \in DOMAIN sig[1].sigma :
          /\ NoZeroArea(r)
          /\ Cardinality({j \in DOMAIN sig[1].sigma[r] : sig[1].sigma[r][j] # R(0)}) >= 2
          /\ RowMass(r) = R(MassInRadialCell(r))
    /\ \E k \in DOMAIN heap[1].g : heap[1].g[k].a < 0

\* C4 as claimed: with rbins a count, the returned radial edges are strictly
\* increasing and count + 1 long.
C4_EdgesIncreasing ==
    (pc = "done" /\ ret # <<>> /\ IsCount(args.rbins)) =>
        /\ Len(ret[1].rbins.e) = args.rbins.n + 1
        /\ StrictlyIncreasing(ret[1].rbins.e)

\* C5 as claimed: with rbins a count and log spacing, rmin <= 0 ends the
\* call with an error; no edge sequence is made and no snapshot is binned.
C5_LogNeedsPositiveRmin ==
    (IsCount(args.rbins) /\ args.binspacing = "log" /\ RLeq(rmin, R(0))) =>
        /\ IsCount(rbins)
        /\ \A n \in DOMAIN calls : calls[n].op # "power"
        /\ pc \in {"bins", "done"}
        /\ pc = "done" => (err # "" /\ ret = <<>>)

\* C6 as claimed: profiles that do not all carry the same unit tag make the
\* call fail; no combined array is returned.
C6_UnitMismatchFails ==
    (pc = "done" /\ \E m, n \in DOMAIN power : power[m].units # power[n].units) =>
        (err # "" /\ ret = <<>>)

NoCenterOrPowerCall == \A n \in DOMAIN calls : calls[n].op = "load"

BadSpacing == IsCount(args.rbins) /\ args.binspacing \notin {"log", "linear"}

\* C7 as claimed: with rbins a count, an unknown binspacing ends the call in
\* ValueError before the loop; nothing is recentered, binned or returned.
C7_BadSpacingValueError ==
    BadSpacing =>
        /\ pc \in {"start", "limits", "bins", "done"}
        /\ NoCenterOrPowerCall /\ nxt = 0 /\ ret = <<>>
        /\ pc = "done" => err = "ValueError"

\* C7 (amended): the error is ValueError unless the first snapshot, needed
\* for the radial limits, could not be loaded; then the load's error ends
\* the call, also before the loop.
C7_BadSpacingFailsBeforeLoop ==
    BadSpacing =>
        /\ pc \in {"start", "limits", "bins", "done"}
        /\ NoCenterOrPowerCall /\ nxt = 0 /\ ret = <<>>
        /\ pc = "done" =>
              \/ err = "ValueError"
              \/ /\ err = "IOError" /\ args.rlim = None /\ do_load
                 /\ calls = <<Event("load", -1, FALSE, Count(0), <<>>)>>

C7_Witness ==
    /\ BadSpacing /\ pc = "done" /\ err = "ValueError"
    /\ args.rlim = None /\ do_load
    /\ calls = <<Event("load", -1, TRUE, Count(0), <<>>)>>

\* C8: a failed load, centerdisk or spiralpower call is the last call made:
\* the call ends with its error, returns nothing, fetches no later element
\* and repeats no call.
C8_FailureAborts ==
    \A n \in DOMAIN calls :
        ~calls[n].ok =>
            /\ n = Len(calls)
            /\ pc = "done" /\ err # "" /\ ret = <<>>
            /\ nxt = calls[n].k + 1
            /\ \A m \in 1..(n - 1) :
                  /\ calls[m].k <= calls[n].k
                  /\ ~(calls[m].op = calls[n].op /\ calls[m].k = calls[n].k)

C8_Witness ==
    /\ pc = "done"
    /\ Len(args.flist) >= 2
    /\ \E n \in DOMAIN calls : ~calls[n].ok /\ calls[n].k = 0

\* C9: within the loop the calls come in the order load, centerdisk,
\* spiralpower for element k, all before any call for element k + 1;
\* centerdisk is called once per element, before its spiralpower call, when
\* center is set, and never otherwise; load is called only for filenames.
C9_StepOrder ==
    /\ \A m, n \in DOMAIN calls :
          (m < n /\ calls[m].k >= 0) =>
              \/ calls[m].k < calls[n].k
              \/ calls[m].k = calls[n].k /\ Rank(calls[m].op) < Rank(calls[n].op)
    /\ \A n \in DOMAIN calls :
          /\ calls[n].op = "center" => args.center
          /\ (calls[n].op = "load" /\ calls[n].k >= 0) => args.flist[1].isstr
          /\ calls[n].op = "power" =>
                /\ args.center =>
                      \E m \in 1..(n - 1) :
                          calls[m].op = "center" /\ calls[m].k = calls[n].k /\ calls[m].ok
                /\ args.flist[1].isstr =>
                      \E m \in 1..(n - 1) :
                          calls[m].op = "load" /\ calls[m].k = calls[n].k /\ calls[m].ok
    /\ (pc = "done" /\ err = "") =>
          \A k \in 0..(Len(args.flist) - 1) :
              /\ \E n \in DOMAIN calls : calls[n].op = "power" /\ calls[n].k = k
              /\ args.center => \E n \in DOMAIN calls : calls[n].op = "center" /\ calls[n].k = k

C9_Witness ==
    /\ pc = "done" /\ err = ""
    /\ args.center /\ do_load
    /\ Len(args.flist) >= 2
    /\ Cardinality({n \in DOMAIN calls : calls[n].op = "center"}) = Len(args.flist)

\* The radial limits were read from a snapshot.
LimitsRead ==
    /\ IsCount(args.rbins) /\ args.rlim = None
    /\ pc \notin {"start", "limits"}
    /\ ~FailedBeforeLoop \/ err = "ValueError"

\* C10: with rbins a count, no rlim and center set, the radial limits are
\* those of the first snapshot as given, read before any centerdisk call,
\* while every snapshot is binned in its recentered coordinates.
C10_LimitsFromUncentered ==
    (LimitsRead /\ args.center) =>
        /\ rmin = SeqMin(rxy(EntrySnap(args.flist[1])))
        /\ rmax = SeqMax(rxy(EntrySnap(args.flist[1])))
        /\ pc = "bins" => NoCenterOrPowerCall
        /\ \A n \in DOMAIN calls :
              (calls[n].op = "power" /\ calls[n].ok) =>
                  calls[n].g = centerdisk(EntrySnap(args.flist[calls[n].k + 1])).g

C10_Witness ==
    /\ LimitsRead /\ args.center
    /\ \E n \in DOMAIN calls : calls[n].op = "power" /\ calls[n].ok /\ calls[n].k = 0
    /\ <<rmin, rmax>> # RadialExtentCentered(EntrySnap(args.flist[1]))
    /\ ~do_load

====
